---- MODULE Spec2Model ----
(***************************************************************************)
(* A model of aws_nsm_interface: the seven NSM commands, each a round trip *)
(* encode -> allocate -> prepare iovecs -> ioctl -> decode -> classify on  *)
(* an open /dev/nsm handle.  Python values are modelled as records, the    *)
(* CBOR codec as an encoder/decoder over byte sequences, ctypes memory as  *)
(* a heap of cells reached through raw addresses.                          *)
(***************************************************************************)
EXTENDS Integers, Sequences, FiniteSets, TLC

(* ---------------------------------------------------------------- bounds *)
\* Number of distinct addresses the allocator can hand out.
NumAddrs == 3
\* PCR indexes / lock ranges the callers pass: 0..MaxIndex.
MaxIndex == 1
\* The module answers GetRandom with 0..MaxModuleBytes bytes, or with 300.
MaxModuleBytes == 2

(* ----------------------------------------------------- program constants *)
NSM_REQUEST_MAX_SIZE == 4096
NSM_RESPONSE_MAX_SIZE == 12288
\* ctypes.sizeof(NsmMessage): two IoVec of (c_void_p, c_size_t) on LP64.
SIZEOF_NSM_MESSAGE == 32

(* --------------------------------------------------------- Python values *)
\* Every Python / CBOR value is a record of the same shape; t is its type.
Val(t, s, b, m, n) == [t |-> t, s |-> s, b |-> b, m |-> m, n |-> n]
None == Val("null", "", <<>>, <<>>, 0)
Unset == Val("unset", "", <<>>, <<>>, 0)
Text(s) == Val("text", s, <<>>, <<>>, 0)
Bytes(b) == Val("bytes", "", b, <<>>, 0)
UInt(n) == Val("uint", "", <<>>, <<>>, n)
Bool(x) == Val("bool", "", <<>>, <<>>, IF x THEN 1 ELSE 0)
\* A dict: a sequence of [k |-> key string, v |-> value], keys distinct.
Dict(m) == Val("map", "", <<>>, m, 0)
KV(k, v) == [k |-> k, v |-> v]

isinstance_dict(v) == v.t = "map"

\* key in d, for a dict d.
DictHas(d, k) == \E i \in 1..Len(d.m) : d.m[i].k = k

\* d.get(key): the value stored under key, None when the key is absent.
DictGet(d, k) ==
  IF DictHas(d, k)
  THEN d.m[CHOOSE i \in 1..Len(d.m) : d.m[i].k = k].v
  ELSE None

\* n bytes, all of value x.
Fill(n, x) == [i \in 1..n |-> x]

(* ------------------------------------------------------------ CBOR codec *)
KnownStrings ==
  {"LockPCR", "LockPCRs", "DescribePCR", "Attestation", "ExtendPCR",
   "DescribeNSM", "GetRandom", "Error", "random", "index", "range", "data",
   "user_data", "nonce", "public_key", "lock", "document", "max_pcrs",
   "InvalidIndex", "InternalError"}

Utf8(s) ==
  CASE s = "LockPCR" -> <<76, 111, 99, 107, 80, 67, 82>>
    [] s = "LockPCRs" -> <<76, 111, 99, 107, 80, 67, 82, 115>>
    [] s = "DescribePCR" -> <<68, 101, 115, 99, 114, 105, 98, 101, 80, 67, 82>>
    [] s = "Attestation" -> <<65, 116, 116, 101, 115, 116, 97, 116, 105, 111, 110>>
    [] s = "ExtendPCR" -> <<69, 120, 116, 101, 110, 100, 80, 67, 82>>
    [] s = "DescribeNSM" -> <<68, 101, 115, 99, 114, 105, 98, 101, 78, 83, 77>>
    [] s = "GetRandom" -> <<71, 101, 116, 82, 97, 110, 100, 111, 109>>
    [] s = "Error" -> <<69, 114, 114, 111, 114>>
    [] s = "random" -> <<114, 97, 110, 100, 111, 109>>
    [] s = "index" -> <<105, 110, 100, 101, 120>>
    [] s = "range" -> <<114, 97, 110, 103, 101>>
    [] s = "data" -> <<100, 97, 116, 97>>
    [] s = "user_data" -> <<117, 115, 101, 114, 95, 100, 97, 116, 97>>
    [] s = "nonce" -> <<110, 111, 110, 99, 101>>
    [] s = "public_key" -> <<112, 117, 98, 108, 105, 99, 95, 107, 101, 121>>
    [] s = "lock" -> <<108, 111, 99, 107>>
    [] s = "document" -> <<100, 111, 99, 117, 109, 101, 110, 116>>
    [] s = "max_pcrs" -> <<109, 97, 120, 95, 112, 99, 114, 115>>
    [] s = "InvalidIndex" -> <<73, 110, 118, 97, 108, 105, 100, 73, 110, 100, 101, 120>>
    [] s = "InternalError" -> <<73, 110, 116, 101, 114, 110, 97, 108, 69, 114, 114, 111, 114>>

\* The string a UTF-8 byte sequence spells ("?" for one outside the table).
Utf8Inv(bs) ==
  IF \E s \in KnownStrings : Utf8(s) = bs
  THEN CHOOSE s \in KnownStrings : Utf8(s) = bs
  ELSE "?"

\* The initial byte(s) of a data item: major type and argument n.
CborHead(major, n) ==
  IF n < 24 THEN <<major * 32 + n>>
  ELSE IF n < 256 THEN <<major * 32 + 24, n>>
  ELSE <<major * 32 + 25, n \div 256, n % 256>>

RECURSIVE CborEncode(_)
RECURSIVE CborEncodePairs(_)
\* cbor2.dumps(v) for the value shapes the commands and the module use.
CborEncode(v) ==
  CASE v.t = "uint" -> CborHead(0, v.n)
    [] v.t = "bytes" -> CborHead(2, Len(v.b)) \o v.b
    [] v.t = "text" -> CborHead(3, Len(Utf8(v.s))) \o Utf8(v.s)
    [] v.t = "map" -> CborHead(5, Len(v.m)) \o CborEncodePairs(v.m)
    [] v.t = "bool" -> <<244 + v.n>>
    [] v.t = "null" -> <<246>>

CborEncodePairs(m) ==
  IF m = <<>> THEN <<>>
  ELSE CborEncode(Text(Head(m).k)) \o CborEncode(Head(m).v)
         \o CborEncodePairs(Tail(m))

\* The result of reading one item: ok, the value, and the bytes after it.
Parsed(v, rest) == [ok |-> TRUE, v |-> v, rest |-> rest]
ParseFail == [ok |-> FALSE, v |-> Unset, rest |-> <<>>]

Drop(bs, k) == SubSeq(bs, k + 1, Len(bs))

\* The argument of an initial byte: [ok, n, rest after the head].
CborArg(bs) ==
  LET info == bs[1] % 32 IN
  IF info < 24 THEN [ok |-> TRUE, n |-> info, rest |-> Drop(bs, 1)]
  ELSE IF info = 24 /\ Len(bs) >= 2
    THEN [ok |-> TRUE, n |-> bs[2], rest |-> Drop(bs, 2)]
  ELSE IF info = 25 /\ Len(bs) >= 3
    THEN [ok |-> TRUE, n |-> bs[2] * 256 + bs[3], rest |-> Drop(bs, 3)]
  ELSE [ok |-> FALSE, n |-> 0, rest |-> <<>>]

RECURSIVE CborDecodeItem(_)
RECURSIVE CborDecodePairs(_, _)
\* One data item off the front of bs (premature end and the items the module
\* never sends are decode errors).
CborDecodeItem(bs) ==
  IF bs = <<>> THEN ParseFail
  ELSE
    LET major == bs[1] \div 32
        arg == CborArg(bs)
    IN
    CASE major = 0 ->
           IF arg.ok THEN Parsed(UInt(arg.n), arg.rest) ELSE ParseFail
      [] major = 2 ->
           IF arg.ok /\ Len(arg.rest) >= arg.n
           THEN Parsed(Bytes(SubSeq(arg.rest, 1, arg.n)), Drop(arg.rest, arg.n))
           ELSE ParseFail
      [] major = 3 ->
           IF arg.ok /\ Len(arg.rest) >= arg.n
           THEN Parsed(Text(Utf8Inv(SubSeq(arg.rest, 1, arg.n))),
                       Drop(arg.rest, arg.n))
           ELSE ParseFail
      [] major = 5 ->
           IF arg.ok THEN CborDecodePairs(arg.rest, arg.n) ELSE ParseFail
      [] major = 7 ->
           IF bs[1] \in {244, 245} THEN Parsed(Bool(bs[1] = 245), Drop(bs, 1))
           ELSE IF bs[1] = 246 THEN Parsed(None, Drop(bs, 1))
           ELSE ParseFail
      [] OTHER -> ParseFail

\* n key/value pairs off the front of bs, as a dict.
CborDecodePairs(bs, n) ==
  IF n = 0 THEN Parsed(Dict(<<>>), bs)
  ELSE
    LET key == CborDecodeItem(bs) IN
    IF ~key.ok \/ key.v.t # "text" THEN ParseFail
    ELSE
      LET val == CborDecodeItem(key.rest) IN
      IF ~val.ok THEN ParseFail
      ELSE
        LET more == CborDecodePairs(val.rest, n - 1) IN
        IF ~more.ok THEN ParseFail
        ELSE Parsed(Dict(<<KV(key.v.s, val.v)>> \o more.v.m), more.rest)

\* cbor2.loads(data): the first data item; bytes after it are not looked at.
CborDecode(bs) == CborDecodeItem(bs)

(* ------------------------------------------------- commands and requests *)
Commands ==
  {"lock_pcr", "lock_pcrs", "describe_pcr", "get_attestation_doc",
   "extend_pcr", "describe_nsm", "get_random"}

\* nsm_key of each command.
NsmKey(cmd) ==
  CASE cmd = "lock_pcr" -> "LockPCR"
    [] cmd = "lock_pcrs" -> "LockPCRs"
    [] cmd = "describe_pcr" -> "DescribePCR"
    [] cmd = "get_attestation_doc" -> "Attestation"
    [] cmd = "extend_pcr" -> "ExtendPCR"
    [] cmd = "describe_nsm" -> "DescribeNSM"
    [] cmd = "get_random" -> "GetRandom"

\* The arguments of a call; a command reads only its own.
NoArgs ==
  [index |-> 0, lock_range |-> 0, length |-> 0, data |-> None,
   user_data |-> None, nonce |-> None, public_key |-> None]

\* The value each command hands to cbor2.dumps.
RequestValue(cmd, a) ==
  CASE cmd = "lock_pcr" ->
         Dict(<<KV("LockPCR", Dict(<<KV("index", UInt(a.index))>>))>>)
    [] cmd = "lock_pcrs" ->
         Dict(<<KV("LockPCRs", Dict(<<KV("range", UInt(a.lock_range))>>))>>)
    [] cmd = "describe_pcr" ->
         Dict(<<KV("DescribePCR", Dict(<<KV("index", UInt(a.index))>>))>>)
    [] cmd = "get_attestation_doc" ->
         Dict(<<KV("Attestation",
                   Dict(<<KV("user_data", a.user_data),
                          KV("nonce", a.nonce),
                          KV("public_key", a.public_key)>>))>>)
    [] cmd = "extend_pcr" ->
         Dict(<<KV("ExtendPCR",
                   Dict(<<KV("index", UInt(a.index)), KV("data", a.data)>>))>>)
    [] cmd = "describe_nsm" -> Text("DescribeNSM")
    [] cmd = "get_random" -> Text("GetRandom")

(* ------------------------------------------------------- caller's inputs *)
Indexes == 0..MaxIndex
\* data of extend_pcr: empty, and around the size that encodes to 4096 bytes.
ExtendData == {Bytes(Fill(n, 171)) : n \in {0, 4068, 4069, 4070}}
\* user_data / nonce of get_attestation_doc, again around the 4096 limit.
UserData == {None} \cup {Bytes(Fill(n, 171)) : n \in {4049, 4050}}
Nonces == {None, Bytes(<<9>>)}
\* length of get_random: both sides of both ends of [1, 256].
RandomLengths == {-1, 0, 1, 2, 256, 257}

(* --------------------------------------------------- the module's answers *)
ErrorCodes == {"InvalidIndex", "InternalError"}

\* The byte strings the module returns for GetRandom: its own choice of length.
ModuleRandom ==
  {Bytes([i \in 1..n |-> (7 * i) % 256]) : n \in (0..MaxModuleBytes) \cup {300}}

\* Payloads the module stores under a command's tag.
Payloads(cmd) ==
  CASE cmd \in {"lock_pcr", "lock_pcrs"} -> {Dict(<<>>)}
    [] cmd = "describe_pcr" ->
         {Dict(<<KV("lock", Bool(FALSE)), KV("data", Bytes(<<0, 0>>))>>)}
    [] cmd = "get_attestation_doc" ->
         {Dict(<<KV("document", Bytes(<<132, 68>>))>>)}
    [] cmd = "extend_pcr" -> {Dict(<<KV("data", Bytes(<<1, 2>>))>>)}
    [] cmd = "describe_nsm" -> {Dict(<<KV("max_pcrs", UInt(32))>>)}
    [] cmd = "get_random" -> {Dict(<<KV("random", b)>>) : b \in ModuleRandom}

\* What the module may answer a command with: an error, the tagged payload,
\* both tags at once, neither, or the bare tag string.
Responses(cmd) ==
  LET key == NsmKey(cmd) IN
       {Dict(<<KV("Error", Text(e))>>) : e \in ErrorCodes}
  \cup {Dict(<<KV(key, p)>>) : p \in Payloads(cmd)}
  \cup {Dict(<<KV(key, p), KV("Error", Text("InternalError"))>>) :
          p \in Payloads(cmd)}
  \cup {Dict(<<>>), Text(key)}

\* The used lengths the module may report for a response it wrote as bs.
ReportedLengths(bs) == {Len(bs), Len(bs) - 1, 0}

(* ---------------------------------------------------------------- memory *)
Addr == 1..NumAddrs
NULL == 0

\* A ctypes object: live until its last reference goes, at a fixed address.
Cell(kind, size, data) ==
  [live |-> TRUE, kind |-> kind, size |-> size, data |-> data]
FreeCell == [live |-> FALSE, kind |-> "free", size |-> 0, data |-> <<>>]

IoVec(base, len) == [iov_base |-> base, iov_len |-> len]
\* NsmMessage(): both descriptors zero.
NsmMessage == [request |-> IoVec(NULL, 0), response |-> IoVec(NULL, 0)]

\* The first n bytes at a cell; a buffer is zero beyond what was written.
MemRead(cell, n) ==
  [i \in 1..n |-> IF i <= Len(cell.data) THEN cell.data[i] ELSE 0]

VARIABLES
  file_handle,      \* "none", "open" or "closed"
  pc,               \* the next step of the running command, or idle / done
  cmd,              \* the command running
  args,             \* its arguments
  request_data,     \* cbor2.dumps(...) of the request
  request_buffer,   \* address of the request buffer (NULL: unbound)
  response_buffer,  \* address of the response buffer
  message_ref,      \* address of the NsmMessage
  nsm_message,      \* the fields of the NsmMessage
  heap,             \* the ctypes objects, by address
  built,            \* what the descriptors referred to when they were built
  derefs,           \* every read or write through a raw address, this call
  kernel_calls,     \* ioctl calls issued by this invocation
  os_result,        \* "none", "ok" or "failed": how the ioctl ended
  kernel_request,   \* the request bytes the kernel read
  module_response,  \* what the module wrote, and the length it reported
  cbor_data,        \* the bytes handed to cbor2.loads
  decoded_response, \* what cbor2.loads returned
  outcome           \* how the invocation ended: [kind, value]

vars ==
  <<file_handle, pc, cmd, args, request_data, request_buffer, response_buffer,
    message_ref, nsm_message, heap, built, derefs, kernel_calls, os_result,
    kernel_request, module_response, cbor_data, decoded_response, outcome>>

NoOutcome == [kind |-> "none", value |-> Unset]
Return(v) == [kind |-> "return", value |-> v]
Raise(kind, v) == [kind |-> kind, value |-> v]

NoResponse == [written |-> <<>>, length |-> 0]

NoBuilt ==
  [message |-> NULL, request |-> IoVec(NULL, 0), response |-> IoVec(NULL, 0)]

Init ==
  /\ file_handle = "none"
  /\ pc = "idle"
  /\ cmd = "none"
  /\ args = NoArgs
  /\ request_data = <<>>
  /\ request_buffer = NULL
  /\ response_buffer = NULL
  /\ message_ref = NULL
  /\ nsm_message = NsmMessage
  /\ heap = [a \in Addr |-> FreeCell]
  /\ built = NoBuilt
  /\ derefs = {}
  /\ kernel_calls = 0
  /\ os_result = "none"
  /\ kernel_request = <<>>
  /\ module_response = NoResponse
  /\ cbor_data = <<>>
  /\ decoded_response = Unset
  /\ outcome = NoOutcome

(* ------------------------------------------------------ device open/close *)
OpenNsmDevice ==
  /\ pc \in {"idle", "done"}
  /\ file_handle \in {"none", "closed"}
  /\ file_handle' = "open"
  /\ UNCHANGED <<pc, cmd, args, request_data, request_buffer, response_buffer,
                 message_ref, nsm_message, heap, built, derefs, kernel_calls,
                 os_result, kernel_request, module_response, cbor_data, decoded_response,
                 outcome>>

CloseNsmDevice ==
  /\ pc \in {"idle", "done"}
  /\ file_handle = "open"
  /\ file_handle' = "closed"
  /\ UNCHANGED <<pc, cmd, args, request_data, request_buffer, response_buffer,
                 message_ref, nsm_message, heap, built, derefs, kernel_calls,
                 os_result, kernel_request, module_response, cbor_data, decoded_response,
                 outcome>>

(* ------------------------------------------------------- entering a call *)
\* The commands are called one at a time, with the handle open_nsm_device
\* returned; a call starts a frame with no locals bound.
Enter(c, a, first) ==
  /\ pc \in {"idle", "done"}
  /\ pc' = first
  /\ cmd' = c
  /\ args' = a
  /\ request_data' = <<>>
  /\ request_buffer' = NULL
  /\ response_buffer' = NULL
  /\ message_ref' = NULL
  /\ nsm_message' = NsmMessage
  /\ built' = NoBuilt
  /\ derefs' = {}
  /\ kernel_calls' = 0
  /\ os_result' = "none"
  /\ kernel_request' = <<>>
  /\ module_response' = NoResponse
  /\ cbor_data' = <<>>
  /\ decoded_response' = Unset
  /\ outcome' = NoOutcome
  /\ UNCHANGED <<file_handle, heap>>

lock_pcr ==
  /\ file_handle = "open"
  /\ \E i \in Indexes :
       Enter("lock_pcr", [NoArgs EXCEPT !.index = i], "encode")

lock_pcrs ==
  /\ file_handle = "open"
  /\ \E r \in Indexes :
       Enter("lock_pcrs", [NoArgs EXCEPT !.lock_range = r], "encode")

describe_pcr ==
  /\ file_handle = "open"
  /\ \E i \in Indexes :
       Enter("describe_pcr", [NoArgs EXCEPT !.index = i], "encode")

get_attestation_doc ==
  /\ file_handle = "open"
  /\ \E u \in UserData, n \in Nonces :
       Enter("get_attestation_doc",
             [NoArgs EXCEPT !.user_data = u, !.nonce = n], "encode")

extend_pcr ==
  /\ file_handle = "open"
  /\ \E i \in Indexes, d \in ExtendData :
       Enter("extend_pcr", [NoArgs EXCEPT !.index = i, !.data = d], "encode")

describe_nsm ==
  /\ file_handle = "open"
  /\ Enter("describe_nsm", NoArgs, "encode")

\* get_random starts with its length check.
get_random ==
  /\ file_handle = "open"
  /\ \E l \in RandomLengths :
       Enter("get_random", [NoArgs EXCEPT !.length = l], "validate")

(* --------------------------------------------------- leaving the function *)
\* The frame goes with the function: its buffers and its NsmMessage lose
\* their last reference and are released.
Released(h) ==
  [a \in Addr |->
     IF a \in {request_buffer, response_buffer, message_ref}
     THEN FreeCell ELSE h[a]]

\* The function ends (return or raise) with outcome o.
Leave(o) ==
  /\ pc' = "done"
  /\ outcome' = o
  /\ heap' = Released(heap)
  /\ request_buffer' = NULL
  /\ response_buffer' = NULL
  /\ message_ref' = NULL
  /\ nsm_message' = NsmMessage

(* ----------------------------------------------- get_random: length check *)
\* The check with its upper end one short: 256 itself is refused.
LengthOutOfRange_off(length) == length < 1 \/ length >= 256

\* if length < 1 or length > 256
LengthOutOfRange(length) == length < 1 \/ length > 256

ValidateLength ==
  /\ pc = "validate"
  /\ IF LengthOutOfRange(args.length)
     THEN /\ Leave(Raise("ValueError", None))
          /\ UNCHANGED <<request_data>>
     ELSE /\ pc' = "encode"
          /\ UNCHANGED <<request_data, request_buffer, response_buffer,
                         message_ref, nsm_message, heap, outcome>>
  /\ UNCHANGED <<file_handle, cmd, args, built, derefs, kernel_calls,
                 os_result, kernel_request, module_response, cbor_data, decoded_response>>

(* ------------------------------------------------------------ cbor2.dumps *)
Encode ==
  /\ pc = "encode"
  /\ request_data' = CborEncode(RequestValue(cmd, args))
  /\ pc' = "allocate"
  /\ UNCHANGED <<file_handle, cmd, args, request_buffer, response_buffer,
                 message_ref, nsm_message, heap, built, derefs, kernel_calls,
                 os_result, kernel_request, module_response, cbor_data, decoded_response,
                 outcome>>

(* --------------------------------------- the buffers and the NsmMessage *)
\* request_buffer = create_string_buffer(request_data, len(request_data)),
\* response_buffer = (NSM_RESPONSE_MAX_SIZE * c_uint8)(), NsmMessage(): three
\* new objects at three free addresses, each bound to a local of the command.
Allocate ==
  /\ pc = "allocate"
  /\ \E rq \in Addr, rs \in Addr, ms \in Addr :
       /\ ~heap[rq].live /\ ~heap[rs].live /\ ~heap[ms].live
       /\ rq # rs /\ rq # ms /\ rs # ms
       /\ heap' = [heap EXCEPT
            ![rq] = Cell("request_buffer", Len(request_data), request_data),
            ![rs] = Cell("response_buffer", NSM_RESPONSE_MAX_SIZE, <<>>),
            ![ms] = Cell("nsm_message", SIZEOF_NSM_MESSAGE, <<>>)]
       /\ request_buffer' = rq
       /\ response_buffer' = rs
       /\ message_ref' = ms
  /\ nsm_message' = NsmMessage
  /\ pc' = "prepare"
  /\ UNCHANGED <<file_handle, cmd, args, request_data, built, derefs,
                 kernel_calls, os_result, kernel_request, module_response, cbor_data,
                 decoded_response, outcome>>

(* -------------------------------------------- _prepare_nsm_message_iovecs *)
\* The check with >= for >: a request of exactly the maximum is refused.
RequestTooLarge_ge(len) == len >= NSM_REQUEST_MAX_SIZE

\* if len(request_buffer) > NSM_REQUEST_MAX_SIZE
RequestTooLarge(len) == len > NSM_REQUEST_MAX_SIZE

\* The buffers owned by a helper's frame instead: they are collected when the
\* helper returns, and the descriptors keep their addresses.
HeapAfterPrepare_gc(h) ==
  [a \in Addr |->
     IF a \in {request_buffer, response_buffer} THEN FreeCell ELSE h[a]]

\* The objects alive once _prepare_nsm_message_iovecs has returned: the
\* caller's locals still hold all three.
HeapAfterPrepare(h) == h

PrepareIovecs ==
  /\ pc = "prepare"
  /\ IF RequestTooLarge(heap[request_buffer].size)
     THEN /\ Leave(Raise("ValueError", None))
          /\ UNCHANGED <<built>>
     ELSE /\ nsm_message' =
               [request |-> IoVec(request_buffer, heap[request_buffer].size),
                response |-> IoVec(response_buffer, heap[response_buffer].size)]
          /\ built' =
               [message |-> message_ref,
                request |-> IoVec(request_buffer, heap[request_buffer].size),
                response |-> IoVec(response_buffer, heap[response_buffer].size)]
          /\ heap' = HeapAfterPrepare(heap)
          /\ pc' = "ioctl"
          /\ UNCHANGED <<request_buffer, response_buffer, message_ref, outcome>>
  /\ UNCHANGED <<file_handle, cmd, args, request_data, derefs, kernel_calls,
                 os_result, kernel_request, module_response, cbor_data, decoded_response>>

(* ------------------------------------------------------------ dereferences *)
\* A raw address is good while the object the descriptor was built over is
\* still allocated there, with the size it had then.
StillValid(h, a, kind, size) ==
  /\ a \in Addr
  /\ h[a].live
  /\ h[a].kind = kind
  /\ h[a].size = size

Deref(by, what, ok) == [by |-> by, what |-> what, ok |-> ok]

\* The cell at a raw address (a NULL or wild address reads as nothing).
At(h, a) == IF a \in Addr THEN h[a] ELSE FreeCell

(* --------------------------------------------------------- _execute_ioctl *)
\* What the kernel touches during the call: the message, the request bytes
\* and the response buffer, each through its raw address.
KernelDerefs ==
  {Deref("ioctl", "message",
         StillValid(heap, message_ref, "nsm_message", SIZEOF_NSM_MESSAGE)),
   Deref("ioctl", "request",
         StillValid(heap, nsm_message.request.iov_base, "request_buffer",
                    built.request.iov_len)),
   Deref("ioctl", "response",
         StillValid(heap, nsm_message.response.iov_base, "response_buffer",
                    built.response.iov_len))}

\* The OSError swallowed: the command goes on to decode the response buffer.
IoctlFails_swallowed ==
  /\ kernel_calls' = kernel_calls + 1
  /\ os_result' = "failed"
  /\ pc' = "decode"
  /\ UNCHANGED <<derefs, kernel_request, module_response, request_buffer,
                 response_buffer, message_ref, nsm_message, heap, outcome>>

\* The OSError answered by issuing the call again.
IoctlFails_retry ==
  /\ kernel_calls < 2
  /\ kernel_calls' = kernel_calls + 1
  /\ os_result' = "failed"
  /\ pc' = "ioctl"
  /\ UNCHANGED <<derefs, kernel_request, module_response, request_buffer,
                 response_buffer, message_ref, nsm_message, heap, outcome>>

\* fcntl.ioctl raises OSError: the exception leaves the command at once.
IoctlFails ==
  /\ kernel_calls' = kernel_calls + 1
  /\ os_result' = "failed"
  /\ Leave(Raise("OSError", None))
  /\ UNCHANGED <<derefs, kernel_request, module_response>>

\* fcntl.ioctl returns: the module has read the request, written its answer
\* into the response buffer and set response.iov_len to the length used.
IoctlReturns ==
  \E r \in Responses(cmd) :
    LET written == CborEncode(r)
        base == nsm_message.response.iov_base
    IN
    \E n \in ReportedLengths(written) :
      /\ kernel_calls' = kernel_calls + 1
      /\ os_result' = "ok"
      /\ kernel_request' =
           MemRead(At(heap, nsm_message.request.iov_base),
                   nsm_message.request.iov_len)
      /\ module_response' = [written |-> written, length |-> n]
      /\ derefs' = derefs \cup KernelDerefs
      /\ heap' = IF base \in Addr
                 THEN [heap EXCEPT ![base].data = written]
                 ELSE heap
      /\ nsm_message' = [nsm_message EXCEPT !.response.iov_len = n]
      /\ pc' = "decode"
      /\ UNCHANGED <<request_buffer, response_buffer, message_ref, outcome>>

ExecuteIoctl ==
  /\ pc = "ioctl"
  /\ (IoctlFails \/ IoctlReturns)
  /\ UNCHANGED <<file_handle, cmd, args, request_data, built, cbor_data,
                 decoded_response>>

(* -------------------------------------------------------- _decode_response *)
\* The copy sized by the buffer's capacity instead of the reported length.
CborData_capacity(h, msg) ==
  MemRead(At(h, msg.response.iov_base), At(h, msg.response.iov_base).size)

\* bytearray(iov_len) filled by memmove(.., iov_base, iov_len).
CborData(h, msg) == MemRead(At(h, msg.response.iov_base), msg.response.iov_len)

DecodeResponse ==
  /\ pc = "decode"
  /\ cbor_data' = CborData(heap, nsm_message)
  /\ derefs' = derefs \cup
       {Deref("memmove", "response",
              /\ StillValid(heap, nsm_message.response.iov_base,
                            "response_buffer", built.response.iov_len)
              /\ nsm_message.response.iov_len <= built.response.iov_len)}
  /\ LET parsed == CborDecode(cbor_data') IN
     IF parsed.ok
     THEN /\ decoded_response' = parsed.v
          /\ pc' = "classify"
          /\ UNCHANGED <<request_buffer, response_buffer, message_ref,
                         nsm_message, heap, outcome>>
     ELSE /\ decoded_response' = Unset
          /\ Leave(Raise("CBORDecodeError", None))
  /\ UNCHANGED <<file_handle, cmd, args, request_data, built, kernel_calls,
                 os_result, kernel_request, module_response>>

(* ---------------------------------------------------------- classification *)
\* lock_pcr, lock_pcrs:
\*   if isinstance(decoded_response, dict) and 'Error' in decoded_response:
\*       raise IoctlError(decoded_response.get('Error'))
\*   return True
LockResult(d) ==
  IF isinstance_dict(d) /\ DictHas(d, "Error")
  THEN Raise("IoctlError", DictGet(d, "Error"))
  ELSE Return(Bool(TRUE))

\* describe_pcr, get_attestation_doc, extend_pcr, describe_nsm:
\*   if nsm_key not in decoded_response:
\*       raise IoctlError(decoded_response.get('Error'))
\*   return decoded_response.get(nsm_key)
\* On a str both branches end in .get, which a str does not have; "in" is
\* a TypeError on bytes, int, bool and None.
TaggedResult(key, d) ==
  CASE d.t = "map" ->
         IF ~DictHas(d, key)
         THEN Raise("IoctlError", DictGet(d, "Error"))
         ELSE Return(DictGet(d, key))
    [] d.t = "text" -> Raise("AttributeError", None)
    [] OTHER -> Raise("TypeError", None)

Min(a, b) == IF a <= b THEN a ELSE b

\* random_bytes[:length], for a bytes value and length >= 1.
Slice(v, length) == Bytes(SubSeq(v.b, 1, Min(length, Len(v.b))))

\* get_random:
\*   random_bytes = decoded_response.get(nsm_key).get('random')
\*   if nsm_key not in decoded_response:
\*       raise IoctlError(decoded_response.get('Error'))
\*   return random_bytes[:length]
\* The two .get come first: the first needs a dict, the second a dict under
\* nsm_key.  The module's 'random' is a byte string or missing (None).
RandomResult(key, d, length) ==
  IF ~isinstance_dict(d) THEN Raise("AttributeError", None)
  ELSE
    LET inner == DictGet(d, key) IN
    IF ~isinstance_dict(inner) THEN Raise("AttributeError", None)
    ELSE
      LET random_bytes == DictGet(inner, "random") IN
      IF ~DictHas(d, key) THEN Raise("IoctlError", DictGet(d, "Error"))
      ELSE CASE random_bytes.t = "bytes" -> Return(Slice(random_bytes, length))
             [] random_bytes.t \in {"null", "uint", "bool"} ->
                  Raise("TypeError", None)

ClassifyLock ==
  /\ pc = "classify"
  /\ cmd \in {"lock_pcr", "lock_pcrs"}
  /\ Leave(LockResult(decoded_response))
  /\ UNCHANGED <<file_handle, cmd, args, request_data, built, derefs,
                 kernel_calls, os_result, kernel_request, module_response, cbor_data,
                 decoded_response>>

ClassifyTagged ==
  /\ pc = "classify"
  /\ cmd \in {"describe_pcr", "get_attestation_doc", "extend_pcr",
              "describe_nsm"}
  /\ Leave(TaggedResult(NsmKey(cmd), decoded_response))
  /\ UNCHANGED <<file_handle, cmd, args, request_data, built, derefs,
                 kernel_calls, os_result, kernel_request, module_response, cbor_data,
                 decoded_response>>

ClassifyRandom ==
  /\ pc = "classify"
  /\ cmd = "get_random"
  /\ Leave(RandomResult(NsmKey(cmd), decoded_response, args.length))
  /\ UNCHANGED <<file_handle, cmd, args, request_data, built, derefs,
                 kernel_calls, os_result, kernel_request, module_response, cbor_data,
                 decoded_response>>

(* ------------------------------------------------------------ specification *)
Next ==
  \/ OpenNsmDevice
  \/ CloseNsmDevice
  \/ lock_pcr
  \/ lock_pcrs
  \/ describe_pcr
  \/ get_attestation_doc
  \/ extend_pcr
  \/ describe_nsm
  \/ get_random
  \/ ValidateLength
  \/ Encode
  \/ Allocate
  \/ PrepareIovecs
  \/ ExecuteIoctl
  \/ DecodeResponse
  \/ ClassifyLock
  \/ ClassifyTagged
  \/ ClassifyRandom

Spec == Init /\ [][Next]_vars

TypeOK ==
  /\ file_handle \in {"none", "open", "closed"}
  /\ pc \in {"idle", "validate", "encode", "allocate", "prepare", "ioctl",
             "decode", "classify", "done"}
  /\ cmd \in Commands \cup {"none"}
  /\ kernel_calls \in 0..2
  /\ os_result \in {"none", "ok", "failed"}
  /\ outcome.kind \in {"none", "return", "ValueError", "OSError",
                       "IoctlError", "AttributeError", "TypeError",
                       "CBORDecodeError"}

(* ------------------------------------------------------------------ claims *)
TagExpecting ==
  {"describe_pcr", "get_attestation_doc", "extend_pcr", "describe_nsm",
   "get_random"}

\* The invocation is over and its ioctl had returned successfully.
DoneAfterOkCall == pc = "done" /\ os_result = "ok"

\* The caller's input fails one of the two validations of the code.
BadLength == cmd = "get_random" /\ (args.length < 1 \/ args.length > 256)
Oversize == Len(request_data) > 4096

\* C1: when the call succeeds and the decoded response is exactly
\* {"Error": e}, the command raises IoctlError carrying e (all seven commands).
C1_ErrorResponseRaisesIoctlError ==
  (/\ DoneAfterOkCall
   /\ \E e \in ErrorCodes : decoded_response = Dict(<<KV("Error", Text(e))>>))
  => outcome = Raise("IoctlError", DictGet(decoded_response, "Error"))

\* C2: get_random(L), 1 <= L <= 256, on a successful response
\* {"GetRandom": {"random": b}} returns exactly L bytes, whatever Len(b) is.
C2_GetRandomReturnsExactlyL ==
  (/\ DoneAfterOkCall
   /\ cmd = "get_random"
   /\ args.length \in 1..256
   /\ \E b \in ModuleRandom :
        decoded_response = Dict(<<KV("GetRandom", Dict(<<KV("random", b)>>))>>))
  => /\ outcome.kind = "return"
     /\ outcome.value.t = "bytes"
     /\ Len(outcome.value.b) = args.length

\* C3: an encoded request longer than 4096 bytes ends in ValueError with no
\* kernel call; one of at most 4096 bytes (4096 included) is accepted and is
\* submitted with request.iov_len equal to its full length.
C3_OversizeRejectedBeforeCall ==
  /\ Oversize => /\ pc \in {"allocate", "prepare", "done"}
                 /\ kernel_calls = 0
                 /\ os_result = "none"
                 /\ pc = "done" => outcome = Raise("ValueError", None)
  /\ (pc = "done" /\ request_data # <<>> /\ ~Oversize)
       => outcome.kind # "ValueError" /\ kernel_calls = 1
  /\ pc = "ioctl"
       => /\ nsm_message.request.iov_len = Len(request_data)
          /\ heap[nsm_message.request.iov_base].data = request_data
  /\ os_result = "ok" => kernel_request = request_data

C3_Witness ==
  /\ pc = "done"
  /\ cmd = "extend_pcr"
  /\ Len(request_data) = 4097
  /\ outcome.kind = "ValueError"
  /\ kernel_calls = 0

\* C4: get_random with length < 1 or > 256 raises ValueError before the
\* request is encoded, before any buffer exists and before any kernel call;
\* lengths 1 and 256 pass the check.
C4_BadLengthRejectedFirst ==
  /\ BadLength
       => /\ pc \in {"validate", "done"}
          /\ request_data = <<>>
          /\ \A a \in Addr : ~heap[a].live
          /\ kernel_calls = 0
          /\ pc = "done" => outcome = Raise("ValueError", None)
  /\ (cmd = "get_random" /\ args.length \in {1, 256} /\ pc = "done")
       => outcome.kind # "ValueError" /\ kernel_calls = 1

C4_Witness ==
  /\ pc = "done"
  /\ cmd = "get_random"
  /\ args.length = 257
  /\ outcome = Raise("ValueError", None)

\* C5: after a successful call in which the module set response.iov_len to n,
\* the bytes given to the decoder are the first n bytes the module wrote:
\* n of them, never the 12288 of the capacity, none from offset n on.
C5_DecodesReportedLength ==
  /\ (os_result = "ok" /\ pc \in {"classify", "done"})
       => /\ Len(cbor_data) = module_response.length
          /\ module_response.length <= NSM_RESPONSE_MAX_SIZE
          /\ \A i \in 1..Len(cbor_data) :
               cbor_data[i] = module_response.written[i]
  /\ ~(os_result = "ok" /\ pc \in {"classify", "done"}) => cbor_data = <<>>

C5_Witness ==
  /\ pc = "done"
  /\ outcome.kind = "CBORDecodeError"
  /\ Len(cbor_data) > 0
  /\ Len(cbor_data) = Len(module_response.written) - 1

\* C6: when the kernel call fails at the OS level the invocation ends in an
\* OSError, which is no IoctlError; nothing is copied out of the response
\* buffer, nothing is decoded and no value is returned.
C6_OsFailureIsTransportError ==
  os_result = "failed"
    => /\ pc = "done"
       /\ outcome.kind = "OSError"
       /\ outcome.kind # "IoctlError"
       /\ cbor_data = <<>>
       /\ decoded_response = Unset
       /\ \A d \in derefs : d.by # "memmove"

C6_Witness ==
  /\ pc = "done"
  /\ os_result = "failed"
  /\ kernel_calls = 1
  /\ outcome.kind = "OSError"

\* C7: for the five commands that expect a tag, a decoded mapping holding
\* neither the tag nor "Error" ends in IoctlError.
C7_MissingTagRaisesIoctlError ==
  (/\ DoneAfterOkCall
   /\ cmd \in TagExpecting
   /\ isinstance_dict(decoded_response)
   /\ ~DictHas(decoded_response, NsmKey(cmd))
   /\ ~DictHas(decoded_response, "Error"))
  => outcome.kind = "IoctlError"

\* C8: in every command a decoded mapping that contains "Error" ends in
\* IoctlError carrying that value, also when the expected tag is there too.
C8_ErrorCheckedFirst ==
  (/\ DoneAfterOkCall
   /\ isinstance_dict(decoded_response)
   /\ DictHas(decoded_response, "Error"))
  => outcome = Raise("IoctlError", DictGet(decoded_response, "Error"))

\* C9: every dereference of a raw address (by the kernel during the call, by
\* memmove after it) finds the message and both buffers still allocated at
\* the address and with the size they had when the descriptors were built.
C9_BuffersLiveWhileDereferenced ==
  /\ \A d \in derefs : d.ok
  /\ pc \in {"ioctl", "decode"}
       => /\ heap[built.message] = Cell("nsm_message", SIZEOF_NSM_MESSAGE, <<>>)
          /\ heap[built.request.iov_base].live
          /\ heap[built.request.iov_base].kind = "request_buffer"
          /\ heap[built.request.iov_base].size = built.request.iov_len
          /\ heap[built.response.iov_base].live
          /\ heap[built.response.iov_base].kind = "response_buffer"
          /\ heap[built.response.iov_base].size = built.response.iov_len
          /\ nsm_message.request.iov_base = built.request.iov_base
          /\ nsm_message.response.iov_base = built.response.iov_base

C9_Witness ==
  /\ pc = "classify"
  /\ derefs = {Deref("ioctl", "message", TRUE), Deref("ioctl", "request", TRUE),
               Deref("ioctl", "response", TRUE),
               Deref("memmove", "response", TRUE)}

====
